---- MODULE Spec2Model ----
(***************************************************************************)
(* Sentinel-X (main.py): per-frame detection loop, severity engine, the    *)
(* two cooldown gates (agent trigger, evidence capture), the incident      *)
(* tracker and the evidence threads.                                       *)
(*                                                                         *)
(* Conventions                                                             *)
(*   - a text string is a sequence of one-character strings, so that       *)
(*     Python's `k in s` (substring) and `s.lower()` are computed;         *)
(*   - a confidence is an integer number of hundredths (0.4 is 40);        *)
(*   - time.time() is the integer clock `now`, in seconds.                 *)
(***************************************************************************)
EXTENDS Integers, Sequences, FiniteSets, TLC

(***************************************************************************)
(* Bounds of the model                                                     *)
(***************************************************************************)
MaxDet      == 2     \* detections per frame drawn for the detection loop
MaxVehicles == 4     \* largest vehicle_count drawn for the severity engine
MaxLabels   == 2     \* labels per label list drawn for the severity engine

(***************************************************************************)
(* Text                                                                    *)
(***************************************************************************)
K_crash      == <<"c", "r", "a", "s", "h">>
K_accident   == <<"a", "c", "c", "i", "d", "e", "n", "t">>
K_severe     == <<"s", "e", "v", "e", "r", "e">>
K_collision  == <<"c", "o", "l", "l", "i", "s", "i", "o", "n">>
K_damage     == <<"d", "a", "m", "a", "g", "e">>
K_car        == <<"c", "a", "r">>
K_automobile == <<"a", "u", "t", "o", "m", "o", "b", "i", "l", "e">>
K_vehicle    == <<"v", "e", "h", "i", "c", "l", "e">>
K_truck      == <<"t", "r", "u", "c", "k">>
K_lorry      == <<"l", "o", "r", "r", "y">>
K_van        == <<"v", "a", "n">>
K_motorcycle == <<"m", "o", "t", "o", "r", "c", "y", "c", "l", "e">>
K_motorbike  == <<"m", "o", "t", "o", "r", "b", "i", "k", "e">>
K_bike       == <<"b", "i", "k", "e">>
K_scooter    == <<"s", "c", "o", "o", "t", "e", "r">>
K_bus        == <<"b", "u", "s">>
K_coach      == <<"c", "o", "a", "c", "h">>
K_bicycle    == <<"b", "i", "c", "y", "c", "l", "e">>
K_cycle      == <<"c", "y", "c", "l", "e">>
K_person     == <<"p", "e", "r", "s", "o", "n">>
K_pedestrian == <<"p", "e", "d", "e", "s", "t", "r", "i", "a", "n">>
K_human      == <<"h", "u", "m", "a", "n">>
K_car_crash  == <<"c", "a", "r", "_", "c", "r", "a", "s", "h">>
K_wreck      == <<"w", "r", "e", "c", "k">>

\* labels a detector reports that are not keywords themselves
L_dog        == <<"d", "o", "g">>
L_Accident   == <<"A", "c", "c", "i", "d", "e", "n", "t">>
L_Car        == <<"C", "a", "r">>
L_BUS        == <<"B", "U", "S">>
L_mini       == <<"m", "i", "n", "i">>

\* str.lower() on the characters the labels use
LowerChar(c) ==
    CASE c = "A" -> "a"
      [] c = "B" -> "b"
      [] c = "C" -> "c"
      [] c = "S" -> "s"
      [] c = "U" -> "u"
      [] OTHER   -> c

Lower(s) == [i \in DOMAIN s |-> LowerChar(s[i])]

\* Python's `k in s` for strings
Contains(s, k) ==
    \E i \in 0..(Len(s) - Len(k)) : SubSeq(s, i + 1, i + Len(k)) = k

\* any(k in s for k in keywords)
AnyIn(keywords, s) == \E j \in DOMAIN keywords : Contains(s, keywords[j])

\* str(labels): the repr of a list of strings, "['a', 'b']"
RECURSIVE JoinRepr(_)
JoinRepr(labels) ==
    IF labels = <<>> THEN <<>>
    ELSE LET head == <<"'">> \o Head(labels) \o <<"'">>
         IN  IF Len(labels) = 1 THEN head
             ELSE head \o <<",", " ">> \o JoinRepr(Tail(labels))

StrOfList(labels) == <<"[">> \o JoinRepr(labels) \o <<"]">>

(***************************************************************************)
(* Severity engine                                                         *)
(***************************************************************************)
CRASH_KEYWORDS == <<K_crash, K_accident, K_severe, K_collision, K_damage>>

has_crash(labels) == AnyIn(CRASH_KEYWORDS, Lower(StrOfList(labels)))

\* faulty variants of calculate_accident_severity: the first rule asks for more than
\* three vehicles; MODERATE is given to one vehicle instead of two; the
\* confidence test of the second rule is not strict
severity_more_than_three(vehicle_count, confidence, labels) ==
    IF vehicle_count > 3
       \/ (has_crash(labels) /\ vehicle_count >= 2 /\ confidence > 70)
    THEN "SEVERE"
    ELSE IF vehicle_count = 2 /\ has_crash(labels)
    THEN "MODERATE"
    ELSE "MINOR"

severity_moderate_for_one(vehicle_count, confidence, labels) ==
    IF vehicle_count >= 3
       \/ (has_crash(labels) /\ vehicle_count >= 2 /\ confidence > 70)
    THEN "SEVERE"
    ELSE IF vehicle_count = 1 /\ has_crash(labels)
    THEN "MODERATE"
    ELSE "MINOR"

severity_conf_not_strict(vehicle_count, confidence, labels) ==
    IF vehicle_count >= 3
       \/ (has_crash(labels) /\ vehicle_count >= 2 /\ confidence >= 70)
    THEN "SEVERE"
    ELSE IF vehicle_count = 2 /\ has_crash(labels)
    THEN "MODERATE"
    ELSE "MINOR"

calculate_accident_severity(vehicle_count, confidence, labels) ==
    IF vehicle_count >= 3
       \/ (has_crash(labels) /\ vehicle_count >= 2 /\ confidence > 70)
    THEN "SEVERE"
    ELSE IF vehicle_count = 2 /\ has_crash(labels)
    THEN "MODERATE"
    ELSE "MINOR"

(***************************************************************************)
(* Label taxonomy                                                          *)
(***************************************************************************)
VEHICLE_TYPES == <<
    [type |-> "car",        keywords |-> <<K_car, K_automobile, K_vehicle>>],
    [type |-> "truck",      keywords |-> <<K_truck, K_lorry, K_van>>],
    [type |-> "motorcycle", keywords |-> <<K_motorcycle, K_motorbike, K_bike, K_scooter>>],
    [type |-> "bus",        keywords |-> <<K_bus, K_coach>>],
    [type |-> "bicycle",    keywords |-> <<K_bicycle, K_cycle>>],
    [type |-> "person",     keywords |-> <<K_person, K_pedestrian, K_human>>] >>

RECURSIVE FirstType(_, _)
FirstType(label_lower, i) ==
    IF i > Len(VEHICLE_TYPES) THEN "other"
    ELSE IF AnyIn(VEHICLE_TYPES[i].keywords, label_lower)
         THEN VEHICLE_TYPES[i].type
         ELSE FirstType(label_lower, i + 1)

\* faulty variants of classify_vehicle_type: the label is not lower-cased;
\* a label is a vehicle only when it is itself the name of a type
classify_case_sensitive(label) == FirstType(label, 1)

classify_whole_label(label) ==
    IF Lower(label) \in {K_car, K_truck, K_motorcycle, K_bus, K_bicycle, K_person}
    THEN FirstType(Lower(label), 1)
    ELSE "other"

classify_vehicle_type(label) == FirstType(Lower(label), 1)

(***************************************************************************)
(* Detection loop of websocket_endpoint (one frame)                        *)
(***************************************************************************)
critical_keywords   == <<K_accident, K_crash, K_car_crash, K_damage, K_wreck,
                         K_severe, K_collision>>
supporting_keywords == <<K_car, K_vehicle, K_person>>

is_critical(label)   == AnyIn(critical_keywords, Lower(label))
is_supporting(label) == AnyIn(supporting_keywords, Lower(label))

\* faulty variants of Triggers: a supporting keyword triggers above 0.5; the
\* critical threshold is not strict
Triggers_supporting_half(box) ==
    \/ is_critical(box.label) /\ box.conf > 40
    \/ is_supporting(box.label) /\ box.conf > 50

Triggers_not_strict(box) ==
    \/ is_critical(box.label) /\ box.conf >= 40
    \/ is_supporting(box.label) /\ box.conf > 70

\* the trigger condition of one detection
Triggers(box) ==
    \/ is_critical(box.label) /\ box.conf > 40
    \/ is_supporting(box.label) /\ box.conf > 70

TypeNames == {"car", "truck", "motorcycle", "bus", "bicycle", "person", "other"}

\* the locals of the loop before the first box
FrameStart ==
    [accident_detected     |-> FALSE,
     detections_list       |-> <<>>,
     vehicle_count_by_type |-> [t \in TypeNames |-> 0],
     total_vehicles        |-> 0,
     highest_conf          |-> 0,
     detected_labels       |-> <<>>]

\* the body of `for box in r.boxes`
BoxStep(s, box) ==
    LET vehicle_type == classify_vehicle_type(box.label)
        counted == vehicle_type # "other"
        hit == Triggers(box)
    IN  [accident_detected     |-> s.accident_detected \/ hit,
         detections_list       |-> Append(s.detections_list,
                                      [label |-> box.label, conf |-> box.conf,
                                       type |-> vehicle_type]),
         vehicle_count_by_type |-> IF counted
                                   THEN [s.vehicle_count_by_type EXCEPT
                                           ![vehicle_type] = @ + 1]
                                   ELSE s.vehicle_count_by_type,
         total_vehicles        |-> IF counted THEN s.total_vehicles + 1
                                   ELSE s.total_vehicles,
         highest_conf          |-> IF hit THEN box.conf ELSE s.highest_conf,
         detected_labels       |-> Append(s.detected_labels, box.label)]

RECURSIVE DetectLoop(_, _)
DetectLoop(s, boxes) ==
    IF boxes = <<>> THEN s
    ELSE DetectLoop(BoxStep(s, Head(boxes)), Tail(boxes))

DetectFrame(boxes) == DetectLoop(FrameStart, boxes)

(***************************************************************************)
(* State                                                                   *)
(***************************************************************************)
VARIABLES
    now,                    \* time.time(), in whole seconds
    last_ibm_trigger_time,  \* module global: when the agent last answered 200
    last_snapshot_time,     \* module global: frame time of the last evidence capture
    incidents,              \* heatmap_tracker.incidents
    pc,                     \* per connection: position of its websocket_endpoint
    loc,                    \* per connection: locals of the frame in hand
    cap,                    \* per connection: the cv2.VideoCapture
    sent,                   \* per connection: the FrameResults sent so far
    tasks,                  \* the evidence threads started, in start order
    nframes,                \* frames read so far, all connections together
    ibm_fired,              \* history: the agent's successful dispatches
    ibm_failed_at,          \* history: when an agent call last failed (0: never)
    snap_log,               \* history: per alerting frame, its time and whether
                            \* an evidence thread was started for it
    sevIn,      \* arguments of a call of calculate_accident_severity
    sevOut,     \* its return value ("unset" before the call)
    sevAfter,   \* how many frames had been read when it was called
    frIn,       \* the boxes the detector returns for one frame
    frOut,      \* the locals of the detection loop after the frame
    trkCap,     \* max_history of a HeatmapTracker of its own
    trkAll,     \* every incident added to it, in call order
    hotOut,     \* the last return value of get_hotspots
    waitIn,     \* argument of a call of estimate_wait_time
    waitOut,    \* whether it was called, and its return value
    clsIn,      \* the label of a call of classify_vehicle_type
    clsOut      \* its return value ("unset" before the call)

sevVars  == <<sevIn, sevOut, sevAfter>>
frVars   == <<frIn, frOut>>
trkVars  == <<trkCap, trkAll, hotOut>>
waitVars == <<waitIn, waitOut>>
clsVars  == <<clsIn, clsOut>>
pureVars == <<sevIn, sevOut, sevAfter, frIn, frOut, trkCap, trkAll, hotOut,
              waitIn, waitOut, clsIn, clsOut>>
mainVars == <<now, last_ibm_trigger_time, last_snapshot_time, incidents, pc, loc,
              cap, sent, tasks, nframes, ibm_fired, ibm_failed_at, snap_log>>
vars == <<now, last_ibm_trigger_time, last_snapshot_time, incidents, pc, loc,
          cap, sent, tasks, nframes, ibm_fired, ibm_failed_at, snap_log,
          sevIn, sevOut, sevAfter, frIn, frOut, trkCap, trkAll, hotOut,
          waitIn, waitOut, clsIn, clsOut>>

\* sequences over S of length 0..n
SeqsUpTo(S, n) == UNION {[1..k -> S] : k \in 0..n}

\* the pure-function variables when no pure call is being examined
NoSevIn  == [vehicle_count |-> 0, confidence |-> 0, labels |-> <<>>]
NoFrOut  == [called |-> FALSE, locals |-> FrameStart]
NoHotOut == [called |-> FALSE, value |-> <<>>]
SevIdle  == sevIn = NoSevIn /\ sevOut = "unset" /\ sevAfter = 0
FrIdle   == frIn = <<>> /\ frOut = NoFrOut
TrkIdle  == trkCap = 0 /\ trkAll = <<>> /\ hotOut = NoHotOut
NoWaitOut == [called |-> FALSE, value |-> 0]
WaitIdle == waitIn = 0 /\ waitOut = NoWaitOut
ClsIdle  == clsIn = <<>> /\ clsOut = "unset"
PureIdle == SevIdle /\ FrIdle /\ TrkIdle /\ WaitIdle /\ ClsIdle

(***************************************************************************)
(* Program constants and the bounds of the frame loop                      *)
(***************************************************************************)
IBM_COOLDOWN        == 60
SNAPSHOT_COOLDOWN   == 15
HEATMAP_MAX_HISTORY == 100
CAMERA_LAT          == 154589    \* 15.4589 degrees, in 1/10000 degree
CAMERA_LON          == 750078    \* 75.0078 degrees

StartTime  == 1000   \* the clock when the first connection is accepted
MaxElapsed == 80     \* seconds of run time explored
MaxFrames  == 2      \* frames read (Spec, SpecTwo)
MaxAlerts  == 3      \* frames read (SpecAlerts)

Conns       == {1, 2}               \* websocket connections (one event loop)
FrameDelays == {0, 5, 15, 60}       \* seconds from one clock reading to the
                                    \* next frame's (reads, sleeps, detection)
CallDelays  == {0, 5}               \* seconds the agent's HTTP calls take

\* the frames the camera delivers
F_quiet == <<[label |-> K_person, conf |-> 60]>>
F_crash == <<[label |-> K_car_crash, conf |-> 85], [label |-> K_car, conf |-> 90],
             [label |-> K_car, conf |-> 92]>>
StreamFrames == {F_quiet, F_crash}
AlertFrames  == {F_crash}

(***************************************************************************)
(* Incident tracker                                                        *)
(***************************************************************************)
\* faulty variant of add_incident: a full tracker drops the new incident
add_incident_keep_oldest(incs, max_history, lat, lon, severity, timestamp) ==
    IF Len(incs) >= max_history THEN incs
    ELSE Append(incs, [lat |-> lat, lon |-> lon, severity |-> severity,
                       timestamp |-> timestamp])

\* deque(maxlen=max_history).append
add_incident(incs, max_history, lat, lon, severity, timestamp) ==
    LET appended == Append(incs, [lat |-> lat, lon |-> lon,
                                  severity |-> severity, timestamp |-> timestamp])
    IN  IF Len(appended) > max_history THEN Tail(appended) ELSE appended

\* faulty variant of get_hotspots: newest first
get_hotspots_newest_first(incs) ==
    [i \in DOMAIN incs |->
        [location |-> <<incs[Len(incs) + 1 - i].lat, incs[Len(incs) + 1 - i].lon>>,
         severity |-> incs[Len(incs) + 1 - i].severity,
         time     |-> incs[Len(incs) + 1 - i].timestamp]]

\* HeatmapTracker.get_hotspots
get_hotspots(incs) ==
    IF incs = <<>> THEN <<>>
    ELSE [i \in DOMAIN incs |->
            [location |-> <<incs[i].lat, incs[i].lon>>,
             severity |-> incs[i].severity,
             time     |-> incs[i].timestamp]]

(***************************************************************************)
(* Queue estimator                                                         *)
(***************************************************************************)
SIGNAL_CYCLE_TIME == 90
CLEARANCE_TIME_PER_VEHICLE == 2

Max(a, b) == IF a >= b THEN a ELSE b

\* faulty variant of estimate_wait_time: a negative product is returned as it is
estimate_wait_time_unclamped(vehicle_count, signal_cycle_time) ==
    LET estimated_wait == vehicle_count * CLEARANCE_TIME_PER_VEHICLE
    IN  IF estimated_wait > signal_cycle_time THEN signal_cycle_time
        ELSE estimated_wait

\* QueueEstimator.estimate_wait_time
estimate_wait_time(vehicle_count, signal_cycle_time) ==
    LET estimated_wait == vehicle_count * CLEARANCE_TIME_PER_VEHICLE
    IN  IF estimated_wait > signal_cycle_time THEN signal_cycle_time
        ELSE Max(0, estimated_wait)

(***************************************************************************)
(* The two cooldown gates                                                  *)
(***************************************************************************)
\* trigger_ibm_agent, step 1: the gate check
ibm_on_cooldown(t, last_ibm) == t - last_ibm < IBM_COOLDOWN

\* faulty variants of trigger_commit: the answer's time is never recorded; it is
\* recorded whatever the status; one timer is shared by both gates
trigger_commit_unrecorded(status, t, last_ibm, last_snap) ==
    [ibm |-> last_ibm, snap |-> last_snap]

trigger_commit_any_status(status, t, last_ibm, last_snap) ==
    [ibm |-> t, snap |-> last_snap]

trigger_commit_shared(status, t, last_ibm, last_snap) ==
    [ibm  |-> IF status = "triggered" THEN t ELSE last_ibm,
     snap |-> IF status = "triggered" THEN t ELSE last_snap]

\* trigger_ibm_agent, step 4: the globals after the agent call ended with
\* `status` at time t
trigger_commit(status, t, last_ibm, last_snap) ==
    [ibm  |-> IF status = "triggered" THEN t ELSE last_ibm,
     snap |-> last_snap]

\* websocket_endpoint: the evidence gate check on the frame's current_time
snapshot_allowed(current_time, last_snap) ==
    current_time - last_snap > SNAPSHOT_COOLDOWN

\* faulty variant of snapshot_commit: every attempt restarts the window
snapshot_commit_sliding(current_time, last_ibm, last_snap) ==
    [ibm |-> last_ibm, snap |-> current_time]

\* websocket_endpoint: the globals after the evidence gate
snapshot_commit(current_time, last_ibm, last_snap) ==
    [ibm  |-> last_ibm,
     snap |-> IF snapshot_allowed(current_time, last_snap)
              THEN current_time ELSE last_snap]

(***************************************************************************)
(* websocket_endpoint: one coroutine per connection, all on one event      *)
(* loop.  From cap.read() to t.start() the body has no await, and the      *)
(* agent's HTTP calls are blocking calls, so no other connection runs      *)
(* while one is at "token", "post" or "evidence".  The evidence threads    *)
(* are real threads and run at any time.                                   *)
(***************************************************************************)
SyncPcs == {"token", "post", "evidence"}

\* faulty variant of LoopFree: the handlers preempt one another like threads
LoopFree_preemptive(c) == TRUE

LoopFree(c) == \A d \in Conns \ {c} : pc[d] \notin SyncPcs

NoLoc ==
    [frame |-> 0, detections |-> <<>>, accident_detected |-> FALSE,
     severity |-> "NONE", total_vehicles |-> 0, highest_conf |-> 0, current_time |-> 0, res |-> "none"]

FailedStates == {"invalid", "write_failed", "error"}
SavedStates  == {"saved", "photo_done", "done"}

InitMain ==
    /\ now = StartTime
    /\ last_ibm_trigger_time = 0
    /\ last_snapshot_time = 0
    /\ incidents = <<>>
    /\ pc = [c \in Conns |-> "idle"]
    /\ loc = [c \in Conns |-> NoLoc]
    /\ cap = [c \in Conns |-> "none"]
    /\ sent = [c \in Conns |-> <<>>]
    /\ tasks = <<>>
    /\ nframes = 0
    /\ ibm_fired = <<>>
    /\ ibm_failed_at = 0
    /\ snap_log = <<>>

Init == InitMain /\ PureIdle

\* await websocket.accept(); cap = cv2.VideoCapture(...)
Connect(c) ==
    /\ pc[c] = "idle"
    /\ LoopFree(c)
    /\ pc' = [pc EXCEPT ![c] = "read"]
    /\ cap' = [cap EXCEPT ![c] = "open"]
    /\ UNCHANGED <<now, last_ibm_trigger_time, last_snapshot_time, incidents, loc,
                   sent, tasks, nframes, ibm_fired, ibm_failed_at, snap_log>>
    /\ UNCHANGED pureVars

\* faulty variant of ReadFail: a failed read leaves the loop
ReadFail_break(c) ==
    /\ pc[c] = "read"
    /\ LoopFree(c)
    /\ pc' = [pc EXCEPT ![c] = "closed"]
    /\ cap' = [cap EXCEPT ![c] = "released"]
    /\ UNCHANGED <<now, last_ibm_trigger_time, last_snapshot_time, incidents, loc,
                   sent, tasks, nframes, ibm_fired, ibm_failed_at, snap_log>>
    /\ UNCHANGED pureVars

\* cap.read() fails: await asyncio.sleep(0.5); continue
ReadFail(c) ==
    /\ pc[c] = "read"
    /\ LoopFree(c)
    /\ pc' = [pc EXCEPT ![c] = "retry"]
    /\ UNCHANGED <<now, last_ibm_trigger_time, last_snapshot_time, incidents, loc,
                   cap, sent, tasks, nframes, ibm_fired, ibm_failed_at, snap_log>>
    /\ UNCHANGED pureVars

Retry(c) ==
    /\ pc[c] = "retry"
    /\ LoopFree(c)
    /\ pc' = [pc EXCEPT ![c] = "read"]
    /\ UNCHANGED <<now, last_ibm_trigger_time, last_snapshot_time, incidents, loc,
                   cap, sent, tasks, nframes, ibm_fired, ibm_failed_at, snap_log>>
    /\ UNCHANGED pureVars

\* the detector raises: no handler but `finally: cap.release()`
ClassifierError(c) ==
    /\ pc[c] = "read"
    /\ LoopFree(c)
    /\ pc' = [pc EXCEPT ![c] = "crashed"]
    /\ cap' = [cap EXCEPT ![c] = "released"]
    /\ UNCHANGED <<now, last_ibm_trigger_time, last_snapshot_time, incidents, loc,
                   sent, tasks, nframes, ibm_fired, ibm_failed_at, snap_log>>
    /\ UNCHANGED pureVars

\* faulty variant of frame_severity: the severity is computed for every frame
frame_severity_always(accident_detected, total_vehicles, highest_conf, detected_labels) ==
    calculate_accident_severity(total_vehicles, highest_conf, detected_labels)

\* severity = "NONE"; if accident_detected: severity = calculate_...(...)
frame_severity(accident_detected, total_vehicles, highest_conf, detected_labels) ==
    IF accident_detected
    THEN calculate_accident_severity(total_vehicles, highest_conf,
                                     detected_labels)
    ELSE "NONE"

\* faulty variant of record_incident: every frame is recorded
record_incident_always(incs, accident_detected, severity, t) ==
    add_incident(incs, HEATMAP_MAX_HISTORY, CAMERA_LAT, CAMERA_LON, severity, t)

\* if accident_detected: heatmap_tracker.add_incident(CAMERA_LAT, CAMERA_LON,
\* severity)
record_incident(incs, accident_detected, severity, t) ==
    IF accident_detected
    THEN add_incident(incs, HEATMAP_MAX_HISTORY, CAMERA_LAT, CAMERA_LON,
                      severity, t)
    ELSE incs

\* a frame is read and classified; on an alert the severity is computed, the
\* incident recorded and the agent's gate checked
ProcessFrame(c, stream, max_frames) ==
    /\ pc[c] = "read"
    /\ LoopFree(c)
    /\ nframes < max_frames
    /\ \E d \in FrameDelays, f \in stream :
        LET t == now + d
            r == DetectFrame(f)
            alert == r.accident_detected
            severity == frame_severity(alert, r.total_vehicles,
                                       r.highest_conf, r.detected_labels)
            cooling == ibm_on_cooldown(t, last_ibm_trigger_time)
        IN  /\ t <= StartTime + MaxElapsed
            /\ now' = t
            /\ loc' = [loc EXCEPT ![c] =
                        [frame             |-> nframes + 1,
                         detections        |-> r.detections_list,
                         accident_detected |-> alert,
                         severity          |-> severity,
                         total_vehicles    |-> r.total_vehicles,
                         highest_conf      |-> r.highest_conf,
                         current_time      |-> IF alert THEN t ELSE 0,
                         res               |-> IF alert /\ cooling THEN "cooldown"
                                               ELSE "none"]]
            /\ incidents' = record_incident(incidents, alert, severity, t)
            /\ pc' = [pc EXCEPT ![c] = IF ~alert THEN "send"
                                       ELSE IF cooling THEN "evidence"
                                       ELSE "token"]
    /\ nframes' = nframes + 1
    /\ UNCHANGED <<last_ibm_trigger_time, last_snapshot_time, cap, sent, tasks,
                   ibm_fired, ibm_failed_at, snap_log>>
    /\ UNCHANGED pureVars

\* get_ibm_token(): a token, or None
AgentToken(c) ==
    /\ pc[c] = "token"
    /\ \E got_token \in BOOLEAN :
        IF got_token
        THEN /\ pc' = [pc EXCEPT ![c] = "post"]
             /\ loc' = loc
             /\ ibm_failed_at' = ibm_failed_at
        ELSE /\ pc' = [pc EXCEPT ![c] = "evidence"]
             /\ loc' = [loc EXCEPT ![c].res = "auth_failed"]
             /\ ibm_failed_at' = now
    /\ UNCHANGED <<now, last_ibm_trigger_time, last_snapshot_time, incidents,
                   cap, sent, tasks, nframes, ibm_fired, snap_log>>
    /\ UNCHANGED pureVars

\* faulty variant of AgentPost: an exception of requests.post is not caught
AgentPost_raises(c) ==
    /\ pc[c] = "post"
    /\ \E status \in {"triggered", "failed", "error"}, d \in CallDelays :
        LET t == now + d
            g == trigger_commit(status, t, last_ibm_trigger_time,
                                last_snapshot_time)
        IN  /\ t <= StartTime + MaxElapsed
            /\ now' = t
            /\ last_ibm_trigger_time' = g.ibm
            /\ last_snapshot_time' = g.snap
            /\ loc' = [loc EXCEPT ![c].res = status]
            /\ ibm_fired' = IF status = "triggered"
                            THEN Append(ibm_fired, [t |-> t, conn |-> c,
                                                    frame |-> loc[c].frame])
                            ELSE ibm_fired
            /\ ibm_failed_at' = IF status = "triggered" THEN ibm_failed_at ELSE t
            /\ pc' = [pc EXCEPT ![c] = IF status = "error" THEN "crashed"
                                       ELSE "evidence"]
            /\ cap' = [cap EXCEPT ![c] = IF status = "error" THEN "released"
                                         ELSE @]
    /\ UNCHANGED <<incidents, sent, tasks, nframes, snap_log>>
    /\ UNCHANGED pureVars

\* requests.post to the agent: 200, another status, or an exception
AgentPost(c) ==
    /\ pc[c] = "post"
    /\ \E status \in {"triggered", "failed", "error"}, d \in CallDelays :
        LET t == now + d
            g == trigger_commit(status, t, last_ibm_trigger_time,
                                last_snapshot_time)
        IN  /\ t <= StartTime + MaxElapsed
            /\ now' = t
            /\ last_ibm_trigger_time' = g.ibm
            /\ last_snapshot_time' = g.snap
            /\ loc' = [loc EXCEPT ![c].res = status]
            /\ ibm_fired' = IF status = "triggered"
                            THEN Append(ibm_fired, [t |-> t, conn |-> c,
                                                    frame |-> loc[c].frame])
                            ELSE ibm_fired
            /\ ibm_failed_at' = IF status = "triggered" THEN ibm_failed_at ELSE t
    /\ pc' = [pc EXCEPT ![c] = "evidence"]
    /\ UNCHANGED <<incidents, cap, sent, tasks, nframes, snap_log>>
    /\ UNCHANGED pureVars

\* the evidence gate: commit the frame's time and start the thread
EvidenceGate(c) ==
    /\ pc[c] = "evidence"
    /\ LET ct == loc[c].current_time
           pass == snapshot_allowed(ct, last_snapshot_time)
           g == snapshot_commit(ct, last_ibm_trigger_time, last_snapshot_time)
       IN  /\ last_ibm_trigger_time' = g.ibm
           /\ last_snapshot_time' = g.snap
           /\ tasks' = IF pass THEN Append(tasks, [stamp |-> ct, st |-> "started"])
                       ELSE tasks
           /\ snap_log' = Append(snap_log, [t |-> ct, conn |-> c,
                                            frame |-> loc[c].frame,
                                            started |-> pass])
    /\ pc' = [pc EXCEPT ![c] = "send"]
    /\ UNCHANGED <<now, incidents, loc, cap, sent, nframes, ibm_fired,
                   ibm_failed_at>>
    /\ UNCHANGED pureVars

\* faulty variant of Send: the newest FrameResult overtakes the earlier ones
Send_newest_first(c) ==
    /\ pc[c] = "send"
    /\ LoopFree(c)
    /\ sent' = [sent EXCEPT ![c] = <<
                  [frame            |-> loc[c].frame,
                   detections       |-> loc[c].detections,
                   accident_alert   |-> loc[c].accident_detected,
                   ibm_agent_status |-> IF loc[c].res = "triggered" THEN "active"
                                        ELSE "idle",
                   severity         |-> loc[c].severity,
                   total_vehicles   |-> loc[c].total_vehicles,
                   heatmap_hotspots |-> get_hotspots(incidents),
                   estimated_wait_time_s |->
                       estimate_wait_time(loc[c].total_vehicles,
                                          SIGNAL_CYCLE_TIME)]>> \o @]
    /\ loc' = [loc EXCEPT ![c] = NoLoc]
    /\ pc' = [pc EXCEPT ![c] = "read"]
    /\ UNCHANGED <<now, last_ibm_trigger_time, last_snapshot_time, incidents,
                   cap, tasks, nframes, ibm_fired, ibm_failed_at, snap_log>>
    /\ UNCHANGED pureVars

\* await websocket.send_json(...), then await asyncio.sleep(0.05)
Send(c) ==
    /\ pc[c] = "send"
    /\ LoopFree(c)
    /\ sent' = [sent EXCEPT ![c] = Append(@,
                  [frame            |-> loc[c].frame,
                   detections       |-> loc[c].detections,
                   accident_alert   |-> loc[c].accident_detected,
                   ibm_agent_status |-> IF loc[c].res = "triggered" THEN "active"
                                        ELSE "idle",
                   severity         |-> loc[c].severity,
                   total_vehicles   |-> loc[c].total_vehicles,
                   heatmap_hotspots |-> get_hotspots(incidents),
                   estimated_wait_time_s |->
                       estimate_wait_time(loc[c].total_vehicles,
                                          SIGNAL_CYCLE_TIME)])]
    /\ loc' = [loc EXCEPT ![c] = NoLoc]
    /\ pc' = [pc EXCEPT ![c] = "read"]
    /\ UNCHANGED <<now, last_ibm_trigger_time, last_snapshot_time, incidents,
                   cap, tasks, nframes, ibm_fired, ibm_failed_at, snap_log>>
    /\ UNCHANGED pureVars

\* faulty variant of Disconnect: the evidence threads still running are
\* stopped
Disconnect_cancels(c) ==
    /\ pc[c] = "send"
    /\ LoopFree(c)
    /\ loc' = [loc EXCEPT ![c] = NoLoc]
    /\ pc' = [pc EXCEPT ![c] = "closed"]
    /\ cap' = [cap EXCEPT ![c] = "released"]
    /\ tasks' = [k \in DOMAIN tasks |->
                    IF tasks[k].st \in {"started", "saved", "photo_done"}
                    THEN [tasks[k] EXCEPT !.st = "error"]
                    ELSE tasks[k]]
    /\ UNCHANGED <<now, last_ibm_trigger_time, last_snapshot_time, incidents,
                   sent, nframes, ibm_fired, ibm_failed_at, snap_log>>
    /\ UNCHANGED pureVars

\* send_json raises WebSocketDisconnect: except, then finally cap.release()
Disconnect(c) ==
    /\ pc[c] = "send"
    /\ LoopFree(c)
    /\ loc' = [loc EXCEPT ![c] = NoLoc]
    /\ pc' = [pc EXCEPT ![c] = "closed"]
    /\ cap' = [cap EXCEPT ![c] = "released"]
    /\ UNCHANGED <<now, last_ibm_trigger_time, last_snapshot_time, incidents,
                   sent, tasks, nframes, ibm_fired, ibm_failed_at, snap_log>>
    /\ UNCHANGED pureVars

(***************************************************************************)
(* handle_alert_background: one thread per evidence capture                *)
(***************************************************************************)
\* step 1: the frame check and cv2.imwrite
TaskSave(k) ==
    /\ k \in DOMAIN tasks
    /\ tasks[k].st = "started"
    /\ \E outcome \in {"invalid", "write_failed", "error", "saved"} :
        tasks' = [tasks EXCEPT ![k].st = outcome]
    /\ UNCHANGED <<now, last_ibm_trigger_time, last_snapshot_time, incidents, pc,
                   loc, cap, sent, nframes, ibm_fired, ibm_failed_at, snap_log>>
    /\ UNCHANGED pureVars

\* faulty variant of TaskPhoto: a failed imwrite does not return
TaskPhoto_after_write_failure(k) ==
    /\ k \in DOMAIN tasks
    /\ tasks[k].st \in {"saved", "write_failed"}
    /\ tasks' = [tasks EXCEPT ![k].st = "photo_done"]
    /\ UNCHANGED <<now, last_ibm_trigger_time, last_snapshot_time, incidents, pc,
                   loc, cap, sent, nframes, ibm_fired, ibm_failed_at, snap_log>>
    /\ UNCHANGED pureVars

\* step 2: sendPhoto (its failures are printed and swallowed)
TaskPhoto(k) ==
    /\ k \in DOMAIN tasks
    /\ tasks[k].st = "saved"
    /\ tasks' = [tasks EXCEPT ![k].st = "photo_done"]
    /\ UNCHANGED <<now, last_ibm_trigger_time, last_snapshot_time, incidents, pc,
                   loc, cap, sent, nframes, ibm_fired, ibm_failed_at, snap_log>>
    /\ UNCHANGED pureVars

\* step 3: sendLocation (its failures are printed and swallowed)
TaskLocation(k) ==
    /\ k \in DOMAIN tasks
    /\ tasks[k].st = "photo_done"
    /\ tasks' = [tasks EXCEPT ![k].st = "done"]
    /\ UNCHANGED <<now, last_ibm_trigger_time, last_snapshot_time, incidents, pc,
                   loc, cap, sent, nframes, ibm_fired, ibm_failed_at, snap_log>>
    /\ UNCHANGED pureVars

\* the evidence threads
Threads ==
    \/ \E k \in DOMAIN tasks : TaskSave(k)
    \/ \E k \in DOMAIN tasks : TaskPhoto(k)
    \/ \E k \in DOMAIN tasks : TaskLocation(k)

\* one connection, any frames
Next ==
    \/ Connect(1)
    \/ ReadFail(1)
    \/ Retry(1)
    \/ ClassifierError(1)
    \/ ProcessFrame(1, StreamFrames, MaxFrames)
    \/ AgentToken(1)
    \/ AgentPost(1)
    \/ EvidenceGate(1)
    \/ Send(1)
    \/ Disconnect(1)
    \/ Threads

Spec == Init /\ [][Next]_vars

\* two connections on the one event loop, any frames
NextTwo ==
    \/ \E c \in Conns : Connect(c)
    \/ \E c \in Conns : ReadFail(c)
    \/ \E c \in Conns : Retry(c)
    \/ \E c \in Conns : ClassifierError(c)
    \/ \E c \in Conns : ProcessFrame(c, StreamFrames, MaxFrames)
    \/ \E c \in Conns : AgentToken(c)
    \/ \E c \in Conns : AgentPost(c)
    \/ \E c \in Conns : EvidenceGate(c)
    \/ \E c \in Conns : Send(c)
    \/ \E c \in Conns : Disconnect(c)
    \/ Threads

SpecTwo == Init /\ [][NextTwo]_vars

\* one connection, a run of alerting frames
NextAlerts ==
    \/ Connect(1)
    \/ ReadFail(1)
    \/ Retry(1)
    \/ ClassifierError(1)
    \/ ProcessFrame(1, AlertFrames, MaxAlerts)
    \/ AgentToken(1)
    \/ AgentPost(1)
    \/ EvidenceGate(1)
    \/ Send(1)
    \/ Disconnect(1)
    \/ Threads

SpecAlerts == Init /\ [][NextAlerts]_vars

(***************************************************************************)
(* Properties of the cooldown gates                                        *)
(*                                                                         *)
(* A dispatch is timed as the program times it: an agent dispatch by the   *)
(* clock when its 200 answer arrives (what last_ibm_trigger_time is set    *)
(* to), an evidence capture by the current_time of its frame (what         *)
(* last_snapshot_time is set to).  An evidence capture is successful when  *)
(* its thread has saved the image.                                         *)
(***************************************************************************)
AgentFiredTimes == {ibm_fired[i].t : i \in DOMAIN ibm_fired}

C2_FailedAgentAttemptKeepsCooldown ==
    /\ last_ibm_trigger_time \in {0} \cup AgentFiredTimes
    /\ \A c \in Conns :
          loc[c].res = "cooldown" =>
              \E t \in AgentFiredTimes :
                  /\ t <= loc[c].current_time
                  /\ loc[c].current_time - t < IBM_COOLDOWN

\* C2 witness: an agent call failed, and an attempt made less than 60 s after
\* that failure passed the gate and was answered 200.
C2_Witness ==
    /\ ibm_failed_at > 0
    /\ \E t \in AgentFiredTimes :
          /\ t > ibm_failed_at
          /\ t - ibm_failed_at < IBM_COOLDOWN
          /\ last_ibm_trigger_time = t

\* C3: last_snapshot_time is committed only when the evidence capture
\* succeeds: a capture that fails (invalid or empty frame, image not written)
\* starts no cooldown window.
C3_EvidenceCooldownOnlyOnSuccess ==
    \A k \in DOMAIN tasks :
        tasks[k].st \in FailedStates => last_snapshot_time # tasks[k].stamp

\* the steps of a connection that belong to its agent attempt, and the step
\* that is its evidence attempt
AgentStep(c)    == pc[c] \in {"read", "token", "post"} /\ pc'[c] # pc[c]
EvidenceStep(c) == pc[c] = "evidence" /\ pc'[c] # pc[c]

\* C4: the two cooldown states are independent: no step of an agent attempt,
\* whatever its outcome, changes last_snapshot_time, and no evidence attempt
\* changes last_ibm_trigger_time.
C4_GatesIndependent ==
    [][\A c \in Conns :
          /\ AgentStep(c) => last_snapshot_time' = last_snapshot_time
          /\ EvidenceStep(c) => last_ibm_trigger_time' = last_ibm_trigger_time]_vars

\* C4 witness: an evidence capture was started, and the agent attempt of a
\* later frame, inside the evidence window, passed its gate and was
\* answered 200.
C4_Witness ==
    \E i \in DOMAIN snap_log, j \in DOMAIN ibm_fired :
        /\ snap_log[i].started
        /\ ibm_fired[j].frame > snap_log[i].frame
        /\ ibm_fired[j].t - snap_log[i].t < SNAPSHOT_COOLDOWN
        /\ last_snapshot_time = snap_log[i].t
        /\ last_ibm_trigger_time = ibm_fired[j].t

\* C5: of three consecutive alerting frames at t, t+5 and t+20, the first
\* passing the evidence gate, the first starts an evidence capture, the
\* second does not and the third does.
C5_FiveAndTwentySeconds ==
    \A i \in DOMAIN snap_log :
        (/\ i + 2 <= Len(snap_log)
         /\ snap_log[i].started
         /\ snap_log[i + 1].t = snap_log[i].t + 5
         /\ snap_log[i + 2].t = snap_log[i].t + 20)
            => (~snap_log[i + 1].started /\ snap_log[i + 2].started)

\* C5 witness: such three frames have gone through the evidence gate.
C5_Witness ==
    /\ Len(snap_log) = 3
    /\ snap_log[1].started
    /\ snap_log[2].t = snap_log[1].t + 5
    /\ snap_log[3].t = snap_log[1].t + 20
    /\ snap_log[3].started

\* C6: attempts of two connections are linearized: at most one connection
\* is between a gate check and its commit, and of two attempts of one kind
\* by different connections within one cooldown window at most one passes
\* the gate and commits.
C6_ConcurrentAttemptsLinearized ==
    /\ Cardinality({c \in Conns : pc[c] \in SyncPcs}) <= 1
    /\ \A i, j \in DOMAIN ibm_fired :
          (i < j /\ ibm_fired[i].conn # ibm_fired[j].conn)
              => ibm_fired[j].t - ibm_fired[i].t >= IBM_COOLDOWN
    /\ \A i, j \in DOMAIN snap_log :
          (/\ i < j /\ snap_log[i].conn # snap_log[j].conn
           /\ snap_log[i].started /\ snap_log[j].started)
              => snap_log[j].t - snap_log[i].t > SNAPSHOT_COOLDOWN

\* C6 witness: two connections had an alerting frame at the same instant;
\* one was answered 200 by the agent and started the evidence thread, the
\* other was rejected by both gates.
C6_Witness ==
    \E c, d \in Conns :
        /\ c # d
        /\ \E i \in DOMAIN ibm_fired : ibm_fired[i].conn = c
        /\ loc[d].res = "cooldown"
        /\ pc[d] = "send"
        /\ \E i, j \in DOMAIN snap_log :
              /\ i < j
              /\ snap_log[i].conn = c /\ snap_log[i].started
              /\ snap_log[j].conn = d /\ ~snap_log[j].started
              /\ snap_log[j].t = snap_log[i].t

(***************************************************************************)
(* The severity engine on drawn arguments                                  *)
(***************************************************************************)
L_damaged == <<"d", "a", "m", "a", "g", "e", "d">>
SevConfs  == {0, 40, 70, 71, 100}
SevLabels == {K_car, K_person, K_car_crash, L_Accident, L_damaged, L_dog}

SeverityInputs ==
    [vehicle_count : 0..MaxVehicles,
     confidence    : SevConfs,
     labels        : SeqsUpTo(SevLabels, MaxLabels)]

InitSeverity ==
    /\ sevIn \in SeverityInputs
    /\ sevOut = "unset"
    /\ sevAfter = 0
    /\ FrIdle /\ TrkIdle /\ WaitIdle /\ ClsIdle
    /\ InitMain

CallSeverity ==
    /\ sevOut = "unset"
    /\ sevOut' = calculate_accident_severity(sevIn.vehicle_count,
                                              sevIn.confidence, sevIn.labels)
    /\ UNCHANGED <<sevIn, sevAfter>>
    /\ UNCHANGED <<frVars, trkVars, waitVars, clsVars>>
    /\ UNCHANGED mainVars

SpecSeverity == InitSeverity /\ [][CallSeverity]_vars

(***************************************************************************)
(* The severity engine called in the course of a run of the frame loop     *)
(***************************************************************************)
MaxHistory == 1     \* frames read in SpecSeverityCalls

HistoryInputs ==
    [vehicle_count : {0, 1, 2, 3},
     confidence    : {70, 71},
     labels        : {<<K_car>>, <<K_car, L_Accident>>}]

\* faulty variant of CallSeverityNow: the engine remembers the last incident
CallSeverityNow_sticky ==
    /\ \E a \in (IF sevOut = "unset" THEN HistoryInputs ELSE {sevIn}) :
        /\ sevIn' = a
        /\ sevOut' = IF incidents # <<>>
                        /\ incidents[Len(incidents)].severity = "SEVERE"
                     THEN "SEVERE"
                     ELSE calculate_accident_severity(a.vehicle_count,
                                                      a.confidence, a.labels)
    /\ sevAfter' = nframes
    /\ UNCHANGED <<frVars, trkVars, waitVars, clsVars>>
    /\ UNCHANGED mainVars

\* a call of calculate_accident_severity at any point of the run; the calls
\* after the first repeat its arguments
CallSeverityNow ==
    /\ \E a \in (IF sevOut = "unset" THEN HistoryInputs ELSE {sevIn}) :
        /\ sevIn' = a
        /\ sevOut' = calculate_accident_severity(a.vehicle_count,
                                                 a.confidence, a.labels)
    /\ sevAfter' = nframes
    /\ UNCHANGED <<frVars, trkVars, waitVars, clsVars>>
    /\ UNCHANGED mainVars

NextSeverityCalls ==
    \/ Connect(1)
    \/ ReadFail(1)
    \/ Retry(1)
    \/ ClassifierError(1)
    \/ ProcessFrame(1, StreamFrames, MaxHistory)
    \/ AgentToken(1)
    \/ AgentPost(1)
    \/ EvidenceGate(1)
    \/ Send(1)
    \/ Disconnect(1)
    \/ Threads
    \/ CallSeverityNow

SpecSeverityCalls == Init /\ [][NextSeverityCalls]_vars

(***************************************************************************)
(* The detection loop on drawn frames                                      *)
(***************************************************************************)
DetLabels == {K_car, K_person, K_car_crash, K_truck, L_dog, L_Accident}
DetConfs  == {40, 41, 70, 71, 92}
Boxes     == [label : DetLabels, conf : DetConfs]

InitDetect ==
    /\ frIn \in SeqsUpTo(Boxes, MaxDet)
    /\ frOut = NoFrOut
    /\ SevIdle /\ TrkIdle /\ WaitIdle /\ ClsIdle
    /\ InitMain

CallDetect ==
    /\ ~frOut.called
    /\ frOut' = [called |-> TRUE, locals |-> DetectFrame(frIn)]
    /\ frIn' = frIn
    /\ UNCHANGED <<sevVars, trkVars, waitVars, clsVars>>
    /\ UNCHANGED mainVars

SpecDetect == InitDetect /\ [][CallDetect]_vars

(***************************************************************************)
(* A HeatmapTracker of any capacity, filled beyond it                      *)
(***************************************************************************)
MaxCapacity == 2    \* small capacities tried beside the default
MaxExtra    == 2    \* incidents added beyond the capacity

TrkSeverities == {"MINOR", "MODERATE", "SEVERE"}

\* HeatmapTracker(max_history), and HeatmapTracker() with the default
InitTracker ==
    /\ trkCap \in (1..MaxCapacity) \cup {HEATMAP_MAX_HISTORY}
    /\ trkAll = <<>>
    /\ hotOut = NoHotOut
    /\ SevIdle /\ FrIdle /\ WaitIdle /\ ClsIdle
    /\ InitMain

\* add_incident(lat, lon, severity); the timestamp is the number of the
\* call.  The tracker of default capacity is filled with one severity.
TrackerAdd ==
    /\ Len(trkAll) < trkCap + MaxExtra
    /\ \E severity \in (IF trkCap <= MaxCapacity THEN TrkSeverities
                         ELSE {"SEVERE"}) :
        /\ incidents' = add_incident(incidents, trkCap, CAMERA_LAT, CAMERA_LON,
                                     severity, Len(trkAll) + 1)
        /\ trkAll' = Append(trkAll, [lat |-> CAMERA_LAT, lon |-> CAMERA_LON,
                                     severity |-> severity,
                                     timestamp |-> Len(trkAll) + 1])
    /\ UNCHANGED <<trkCap, hotOut>>
    /\ UNCHANGED <<sevVars, frVars, waitVars, clsVars>>
    /\ UNCHANGED <<now, last_ibm_trigger_time, last_snapshot_time, pc, loc, cap,
                   sent, tasks, nframes, ibm_fired, ibm_failed_at, snap_log>>

\* get_hotspots()
TrackerHotspots ==
    /\ hotOut' = [called |-> TRUE, value |-> get_hotspots(incidents)]
    /\ UNCHANGED <<trkCap, trkAll>>
    /\ UNCHANGED <<sevVars, frVars, waitVars, clsVars>>
    /\ UNCHANGED mainVars

NextTracker == TrackerAdd \/ TrackerHotspots

SpecTracker == InitTracker /\ [][NextTracker]_vars

(***************************************************************************)
(* The queue estimator on drawn vehicle counts                             *)
(***************************************************************************)
MaxCount == 50      \* vehicle counts tried: -MaxCount..MaxCount

InitWait ==
    /\ waitIn \in -MaxCount..MaxCount
    /\ waitOut = NoWaitOut
    /\ SevIdle /\ FrIdle /\ TrkIdle /\ ClsIdle
    /\ InitMain

CallWait ==
    /\ ~waitOut.called
    /\ waitOut' = [called |-> TRUE,
                   value  |-> estimate_wait_time(waitIn, SIGNAL_CYCLE_TIME)]
    /\ UNCHANGED <<waitIn, sevVars, frVars, trkVars, clsVars>>
    /\ UNCHANGED mainVars

SpecWait == InitWait /\ [][CallWait]_vars

(***************************************************************************)
(* The label taxonomy on drawn labels                                      *)
(***************************************************************************)
MaxWords == 2       \* words joined into one label

ClsWords == {K_car, L_Car, K_truck, K_van, K_bike, L_BUS, K_cycle, K_person,
             L_dog, L_mini}

RECURSIVE Concat(_)
Concat(words) ==
    IF words = <<>> THEN <<>> ELSE Head(words) \o Concat(Tail(words))

ClsLabels == {Concat(ws) : ws \in SeqsUpTo(ClsWords, MaxWords)}

InitClassify ==
    /\ clsIn \in ClsLabels
    /\ clsOut = "unset"
    /\ SevIdle /\ FrIdle /\ TrkIdle /\ WaitIdle
    /\ InitMain

CallClassify ==
    /\ clsOut = "unset"
    /\ clsOut' = classify_vehicle_type(clsIn)
    /\ UNCHANGED <<clsIn, sevVars, frVars, trkVars, waitVars>>
    /\ UNCHANGED mainVars

SpecClassify == InitClassify /\ [][CallClassify]_vars

(***************************************************************************)
(* Properties of the detection loop (SpecDetect)                           *)
(***************************************************************************)
LabelHas(label, keywords) ==
    \E j \in DOMAIN keywords : Contains(Lower(label), keywords[j])

\* C7: the alert of a frame is raised if and only if at least one of its
\* detections has (a critical keyword in its label and confidence > 0.4) or
\* (a supporting keyword in its label and confidence > 0.7), both strict.
C7_AlertIffRule ==
    frOut.called =>
        (frOut.locals.accident_detected <=>
            \E i \in DOMAIN frIn :
                \/ LabelHas(frIn[i].label, critical_keywords) /\ frIn[i].conf > 40
                \/ LabelHas(frIn[i].label, supporting_keywords) /\ frIn[i].conf > 70)

\* C7 witness: a frame whose only critical detection sits exactly on 0.4 and
\* whose only supporting detection sits exactly on 0.7 raises no alert.
C7_Witness ==
    /\ frOut.called
    /\ frIn = <<[label |-> K_car_crash, conf |-> 40], [label |-> K_person, conf |-> 70]>>
    /\ ~frOut.locals.accident_detected

\* the detections of the frame that match the trigger keywords at their
\* thresholds (the reading of "match" most favourable to the code: counting
\* every detection whose label holds a keyword fails on these frames too)
TriggerBoxes(boxes) ==
    {i \in DOMAIN boxes :
        \/ LabelHas(boxes[i].label, critical_keywords) /\ boxes[i].conf > 40
        \/ LabelHas(boxes[i].label, supporting_keywords) /\ boxes[i].conf > 70}

\* C8: on an alerting frame the peak confidence handed to the severity engine
\* and to the agent dispatch is the maximum confidence over the detections
\* whose labels match trigger keywords, whatever their order in the frame.
C8_PeakIsMax ==
    (frOut.called /\ frOut.locals.accident_detected) =>
        /\ \E i \in TriggerBoxes(frIn) : frIn[i].conf = frOut.locals.highest_conf
        /\ \A i \in TriggerBoxes(frIn) : frIn[i].conf <= frOut.locals.highest_conf

(***************************************************************************)
(* Properties of the severity engine (SpecSeverity)                        *)
(***************************************************************************)
\* a crash-indicative keyword occurs in one of the labels
CrashKeywordPresent(labels) ==
    \E i \in DOMAIN labels : LabelHas(labels[i], CRASH_KEYWORDS)

\* C9: with three or more vehicles the severity is SEVERE, for every
\* confidence and every label list.
C9_ThreeOrMoreSevere ==
    (sevOut # "unset" /\ sevIn.vehicle_count >= 3) => sevOut = "SEVERE"

\* C9 witness: exactly three vehicles, confidence 0, no crash keyword.
C9_Witness ==
    /\ sevOut = "SEVERE"
    /\ sevIn.vehicle_count = 3
    /\ sevIn.confidence = 0
    /\ sevIn.labels = <<L_dog>>

\* C10: with exactly two vehicles, a crash keyword in the labels and a
\* confidence of at most 0.7, the severity is MODERATE.
C10_TwoCrashLowConfModerate ==
    (/\ sevOut # "unset"
     /\ sevIn.vehicle_count = 2
     /\ CrashKeywordPresent(sevIn.labels)
     /\ sevIn.confidence <= 70) => sevOut = "MODERATE"

\* C10 witness: two vehicles, the upper-case label Accident, confidence
\* exactly 0.7.
C10_Witness ==
    /\ sevOut = "MODERATE"
    /\ sevIn.vehicle_count = 2
    /\ sevIn.confidence = 70
    /\ sevIn.labels = <<K_car, L_Accident>>

\* the severity as a table over (vehicle count, confidence, crash keyword)
SeverityOf(vehicle_count, confidence, crash) ==
    IF vehicle_count >= 3 THEN "SEVERE"
    ELSE IF vehicle_count = 2 /\ crash
         THEN (IF confidence > 70 THEN "SEVERE" ELSE "MODERATE")
         ELSE "MINOR"

\* C11: calculate_accident_severity is a total, deterministic function of
\* (vehicle_count, confidence, crash keyword present): a call made at any
\* point of a run changes no program state, returns the value the triple
\* determines whatever frames were processed before, and returns MINOR for
\* zero or one vehicle.
C11_SeverityPureTotal ==
    [][(sevIn' # sevIn \/ sevOut' # sevOut \/ sevAfter' # sevAfter) =>
          /\ UNCHANGED mainVars
          /\ sevOut' = SeverityOf(sevIn'.vehicle_count, sevIn'.confidence,
                                  CrashKeywordPresent(sevIn'.labels))
          /\ sevIn'.vehicle_count \in {0, 1} => sevOut' = "MINOR"]_vars

\* C11 witness: after a SEVERE incident was recorded and the agent answered,
\* a call with zero vehicles and a crash label returned MINOR.
C11_Witness ==
    /\ sevAfter >= 1
    /\ incidents # <<>>
    /\ incidents[Len(incidents)].severity = "SEVERE"
    /\ last_ibm_trigger_time > 0
    /\ sevIn.vehicle_count = 0
    /\ sevIn.confidence = 71
    /\ sevIn.labels = <<K_car, L_Accident>>
    /\ sevOut = "MINOR"

(***************************************************************************)
(* Properties of the frame loop (Spec)                                     *)
(***************************************************************************)
\* the label and confidence of each detection of a FrameResult
BoxesOf(detections) ==
    [i \in DOMAIN detections |->
        [label |-> detections[i].label, conf |-> detections[i].conf]]

\* C12: a frame whose detections are car_crash (0.85), car (0.9), car (0.92)
\* is emitted as a FrameResult with accident_alert true, total_vehicles 3 and
\* severity SEVERE.
C12_CrashFrameEndToEnd ==
    \A c \in Conns : \A i \in DOMAIN sent[c] :
        BoxesOf(sent[c][i].detections) = F_crash =>
            /\ sent[c][i].accident_alert
            /\ sent[c][i].total_vehicles = 3
            /\ sent[c][i].severity = "SEVERE"
            /\ \A j \in DOMAIN sent[c][i].detections :
                  sent[c][i].detections[j].type = "car"

\* C12 witness: such a frame was emitted while the agent was on cooldown.
C12_Witness ==
    /\ Len(sent[1]) = 2
    /\ BoxesOf(sent[1][2].detections) = F_crash
    /\ sent[1][2].ibm_agent_status = "idle"
    /\ sent[1][2].severity = "SEVERE"
    /\ Len(ibm_fired) = 1

\* no detection of the frame satisfies the trigger rule
NoTrigger(detections) == TriggerBoxes(BoxesOf(detections)) = {}

\* C13: a frame in which no detection satisfies the trigger rule goes
\* straight to emission with accident_alert false: no agent attempt, no
\* evidence attempt, no incident appended, both cooldown states unchanged.
C13_QuietFrameNoSideEffect ==
    [][\A c \in Conns :
          /\ (pc[c] = "read" /\ loc'[c].frame # 0 /\ NoTrigger(loc'[c].detections))
                => /\ pc'[c] = "send"
                   /\ ~loc'[c].accident_detected
                   /\ loc'[c].res = "none"
                   /\ UNCHANGED <<incidents, last_ibm_trigger_time,
                                  last_snapshot_time, tasks, ibm_fired,
                                  ibm_failed_at, snap_log>>
          /\ (pc[c] = "send" /\ pc'[c] = "read" /\ NoTrigger(loc[c].detections))
                => /\ ~sent'[c][Len(sent'[c])].accident_alert
                   /\ sent'[c][Len(sent'[c])].ibm_agent_status = "idle"
                   /\ sent'[c][Len(sent'[c])].severity = "NONE"
                   /\ UNCHANGED <<incidents, last_ibm_trigger_time,
                                  last_snapshot_time, tasks, ibm_fired,
                                  ibm_failed_at, snap_log>>]_vars

\* C13 witness: after an alerting frame that set both cooldown states, a
\* frame holding one person detection at 0.6 was emitted without an alert.
C13_Witness ==
    /\ Len(sent[1]) = 2
    /\ sent[1][1].accident_alert
    /\ BoxesOf(sent[1][2].detections) = F_quiet
    /\ ~sent[1][2].accident_alert
    /\ Len(incidents) = 1
    /\ Len(snap_log) = 1
    /\ last_ibm_trigger_time > 0
    /\ last_snapshot_time > 0

(***************************************************************************)
(* Properties of the incident tracker (SpecTracker)                        *)
(***************************************************************************)
Min(a, b) == IF a <= b THEN a ELSE b

\* C14: the tracker never holds more than its capacity; after capacity + k
\* additions it holds exactly capacity entries, the most recent ones in
\* insertion order, the k oldest evicted.
C14_TrackerKeepsNewest ==
    /\ Len(incidents) <= trkCap
    /\ Len(incidents) = Min(trkCap, Len(trkAll))
    /\ \A i \in DOMAIN incidents :
          incidents[i] = trkAll[Len(trkAll) - Len(incidents) + i]

\* C14 witness: the tracker of default capacity 100 after 100 + MaxExtra
\* additions.
C14_Witness ==
    /\ trkCap = HEATMAP_MAX_HISTORY
    /\ Len(trkAll) = HEATMAP_MAX_HISTORY + MaxExtra
    /\ Len(incidents) = HEATMAP_MAX_HISTORY
    /\ incidents[1].timestamp = MaxExtra + 1

C16_WaitTimeClamped ==
    waitOut.called =>
        /\ waitOut.value = Min(90, Max(0, 2 * waitIn))
        /\ waitOut.value >= 0
        /\ waitOut.value <= 90
        /\ \A m \in -MaxCount..MaxCount :
              m <= waitIn =>
                  estimate_wait_time(m, SIGNAL_CYCLE_TIME) <= waitOut.value

\* C16 witness: a negative count gives 0.
C16_Witness ==
    /\ waitOut.called
    /\ waitIn = -1
    /\ waitOut.value = 0

\* the upper clamp: 46 vehicles give 90, not 92
C16_CapReached ==
    /\ waitOut.called
    /\ waitIn = 46
    /\ waitOut.value = 90

\* the connection holds a frame that was read and classified
FrameInHand(c) == pc[c] \in SyncPcs \cup {"send"}

\* C17: a frame that was read and classified is emitted exactly once,
\* whatever the agent dispatch returned (triggered, cooldown, auth_failed,
\* failed, error) and whether or not an evidence thread was started: from
\* the dispatches the loop always reaches the emission, and the emission
\* appends the one FrameResult of the frame in hand.
C17_OneResultPerFrame ==
    [][\A c \in Conns :
          /\ pc[c] \in SyncPcs => pc'[c] \in SyncPcs \cup {"send"}
          /\ sent'[c] # sent[c] =>
                /\ pc[c] = "send"
                /\ Len(sent'[c]) = Len(sent[c]) + 1
                /\ \A i \in DOMAIN sent[c] : sent'[c][i] = sent[c][i]
                /\ sent'[c][Len(sent'[c])].frame = loc[c].frame
                /\ \A i \in DOMAIN sent[c] : sent[c][i].frame # loc[c].frame
          /\ (pc[c] = "send" /\ pc'[c] = "read") => sent'[c] # sent[c]]_vars

\* C17 witness: two frames were emitted; the agent call of the first had
\* failed and its evidence thread could not save the image, the second was
\* rejected by the evidence gate.
C17_Witness ==
    /\ Len(sent[1]) = 2
    /\ sent[1][1].accident_alert
    /\ sent[1][2].accident_alert
    /\ Len(ibm_fired) = 1
    /\ ibm_fired[1].frame = 2
    /\ ibm_failed_at > 0
    /\ Len(tasks) = 1
    /\ tasks[1].st \in FailedStates

\* C18: an outbound dispatch call that has not yet answered does not hold
\* the frame loop: while the agent is being called, or an evidence thread
\* is running, the connection can emit the FrameResult of its frame.
C18_DispatchNeverStallsLoop ==
    \A c \in Conns :
        FrameInHand(c) => ENABLED (Send(c) \/ EvidenceGate(c))

\* the FrameResults of a connection carry increasing frame numbers
EmittedInReadOrder(c) ==
    \A i, j \in DOMAIN sent[c] : i < j => sent[c][i].frame < sent[c][j].frame

\* C19: FrameResults are emitted in the order their frames were read, and a
\* step of an evidence thread, in whatever order the threads finish, leaves
\* the emitted FrameResults as they are.
C19_EmittedInReadOrder ==
    [][/\ \A c \in Conns : EmittedInReadOrder(c)'
       /\ (\E k \in DOMAIN tasks : tasks'[k].st # tasks[k].st) => sent' = sent]_vars

\* C19 witness: two frames emitted in order while the second evidence thread
\* has finished and the first has not yet saved its image.
C19_Witness ==
    /\ Len(sent[1]) = 2
    /\ sent[1][1].frame = 1
    /\ sent[1][2].frame = 2
    /\ Len(tasks) = 2
    /\ tasks[1].st = "started"
    /\ tasks[2].st = "done"

\* C20: a failed read emits nothing, raises no alert, dispatches nothing,
\* records no incident and changes no cooldown state; the loop sleeps and
\* reads again, however many reads fail in a row.
C20_FailedReadSkipped ==
    [][\A c \in Conns :
          /\ (pc[c] = "read" /\ pc'[c] \notin {"read", "crashed"}
                             /\ nframes' = nframes)
                => /\ pc'[c] = "retry"
                   /\ cap'[c] = "open"
                   /\ UNCHANGED <<sent, incidents, last_ibm_trigger_time,
                                  last_snapshot_time, tasks, ibm_fired,
                                  ibm_failed_at, snap_log, loc>>
          /\ (pc[c] = "retry" /\ pc'[c] # "retry")
                => /\ pc'[c] = "read"
                   /\ cap'[c] = "open"
                   /\ UNCHANGED <<sent, incidents, last_ibm_trigger_time,
                                  last_snapshot_time, tasks, ibm_fired,
                                  ibm_failed_at, snap_log, loc, nframes>>
          /\ pc'[c] = "retry" => (ENABLED Retry(c))']_vars

\* C20 witness: a read has failed after one alerting frame was emitted and
\* both cooldown states were set: the connection sleeps, with nothing
\* emitted or recorded for the failed read.
C20_Witness ==
    /\ pc[1] = "retry"
    /\ cap[1] = "open"
    /\ nframes = 1
    /\ Len(sent[1]) = 1
    /\ Len(incidents) = 1
    /\ last_ibm_trigger_time > 0
    /\ last_snapshot_time > 0

(***************************************************************************)
(* Properties of the label taxonomy (SpecClassify)                         *)
(***************************************************************************)
\* the categories in the order the table declares them
DeclaredOrder == <<"car", "truck", "motorcycle", "bus", "bicycle", "person">>

\* the categories one of whose keywords occurs in the label, case ignored
MatchingCategories(label) ==
    {i \in DOMAIN VEHICLE_TYPES : LabelHas(label, VEHICLE_TYPES[i].keywords)}

\* C24: classify_vehicle_type returns, for every label and whatever its
\* case, the first category in declared order (car, truck, motorcycle, bus,
\* bicycle, person) one of whose keywords is a substring of the label, and
\* other when no keyword matches.
C24_FirstDeclaredCategoryWins ==
    clsOut # "unset" =>
        /\ clsOut \in TypeNames
        /\ clsOut = classify_vehicle_type(Lower(clsIn))
        /\ MatchingCategories(clsIn) = {} => clsOut = "other"
        /\ MatchingCategories(clsIn) # {} =>
              \E i \in MatchingCategories(clsIn) :
                  /\ clsOut = DeclaredOrder[i]
                  /\ \A j \in MatchingCategories(clsIn) : i <= j

\* C24 witness: the label BUScycle holds keywords of bus (in upper case) and
\* of bicycle and is classified as bus.
C24_Witness ==
    /\ clsIn = L_BUS \o K_cycle
    /\ clsOut = "bus"

(***************************************************************************)
(* Monotonicity of the severity engine (SpecSeverity)                      *)
(***************************************************************************)
Rank(severity) ==
    CASE severity = "MINOR"    -> 1
      [] severity = "MODERATE" -> 2
      [] severity = "SEVERE"   -> 3

\* C26: under MINOR < MODERATE < SEVERE, for the label list of the call no
\* larger vehicle count and no larger confidence gives a lower severity
\* than the one returned, and neither does the same call with a
\* crash-indicative label added to the list.
C26_SeverityMonotone ==
    sevOut # "unset" =>
        /\ \A v \in 0..(MaxVehicles + 1) :
              v >= sevIn.vehicle_count =>
                  Rank(calculate_accident_severity(v, sevIn.confidence,
                                                   sevIn.labels)) >= Rank(sevOut)
        /\ \A q \in SevConfs :
              q >= sevIn.confidence =>
                  Rank(calculate_accident_severity(sevIn.vehicle_count, q,
                                                   sevIn.labels)) >= Rank(sevOut)
        /\ \A k \in DOMAIN CRASH_KEYWORDS :
              Rank(calculate_accident_severity(sevIn.vehicle_count,
                       sevIn.confidence,
                       Append(sevIn.labels, CRASH_KEYWORDS[k]))) >= Rank(sevOut)

\* C26 witness: one vehicle, a crash label and confidence 0.7 give MINOR,
\* from where a second vehicle, a higher confidence or both raise the
\* severity.
C26_Witness ==
    /\ sevOut = "MINOR"
    /\ sevIn.vehicle_count = 1
    /\ sevIn.confidence = 70
    /\ sevIn.labels = <<K_car_crash>>

(***************************************************************************)
(* Failure and termination properties of the frame loop (Spec)             *)
(***************************************************************************)
\* C21: a classifier error makes the loop skip the frame and go on: from
\* the point where a frame is to be read and classified, whatever the read
\* or the classifier does, the connection keeps its frame source open and
\* either reads again (at once or after the sleep) or processes the frame.
C21_ClassifierErrorSkipsFrame ==
    [][\A c \in Conns :
          pc[c] = "read" =>
              /\ pc'[c] \in {"read", "retry", "send", "token", "evidence"}
              /\ cap'[c] = "open"]_vars

\* an evidence thread that has not reached its end
Running(task) == task.st \in {"started", "saved", "photo_done"}

C23_WriteFailureStopsThread ==
    [][\A k \in DOMAIN tasks :
          /\ tasks[k].st \in FailedStates => tasks'[k] = tasks[k]
          /\ (tasks'[k].st = "photo_done" /\ tasks[k].st # "photo_done")
                => tasks[k].st = "saved"
          /\ (tasks'[k].st = "done" /\ tasks[k].st # "done")
                => tasks[k].st = "photo_done"
          /\ (tasks[k].st = "started" /\ tasks'[k].st \in FailedStates)
                => /\ \A j \in DOMAIN tasks : j # k => tasks'[j] = tasks[j]
                   /\ Len(tasks') = Len(tasks)
                   /\ UNCHANGED <<pc, loc, cap, sent, nframes, incidents,
                                  last_ibm_trigger_time, last_snapshot_time>>]_vars

\* C23 witness: the first evidence thread failed to write its image; both
\* frames were emitted and the second thread delivered photo and location.
C23_Witness ==
    /\ Len(tasks) = 2
    /\ tasks[1].st = "write_failed"
    /\ tasks[2].st = "done"
    /\ Len(sent[1]) = 2

\* the alerting frames taken so far: those that have gone through the
\* evidence gate and those in a connection's hands before it
AlertingFrames ==
    Len(snap_log) + Cardinality({c \in Conns : pc[c] \in SyncPcs})

\* C25: every alerting frame appends one incident, whether the agent or the
\* evidence dispatch is on cooldown or fails, and no other frame appends
\* one: after N alerting frames the tracker holds min(N, capacity) incidents.
C25_OneIncidentPerAlertingFrame ==
    Len(incidents) = Min(AlertingFrames, HEATMAP_MAX_HISTORY)

\* C25 witness: two alerting frames; the agent answered the first and was
\* on cooldown for the second, which the evidence gate rejected as well.
C25_Witness ==
    /\ Len(incidents) = 2
    /\ Len(sent[1]) = 2
    /\ Len(ibm_fired) = 1
    /\ ibm_fired[1].frame = 1
    /\ Len(snap_log) = 2
    /\ ~snap_log[2].started

\* C27: in every emitted FrameResult the severity is NONE exactly when
\* accident_alert is false, and is MINOR, MODERATE or SEVERE otherwise.
C27_SeverityNoneIffNoAlert ==
    \A c \in Conns : \A i \in DOMAIN sent[c] :
        /\ sent[c][i].severity = "NONE" <=> ~sent[c][i].accident_alert
        /\ sent[c][i].accident_alert =>
              sent[c][i].severity \in {"MINOR", "MODERATE", "SEVERE"}

\* C27 witness: a quiet frame emitted with NONE, then an alerting one with
\* SEVERE.
C27_Witness ==
    /\ Len(sent[1]) = 2
    /\ ~sent[1][1].accident_alert
    /\ sent[1][1].severity = "NONE"
    /\ sent[1][2].accident_alert
    /\ sent[1][2].severity = "SEVERE"

\* C28: both gates pass an attempt made exactly one cooldown after the last
\* firing of their kind and reject any earlier one: an agent attempt is
\* rejected only less than 60 s after the last answer, an evidence attempt
\* only less than 15 s after the last capture.
C28_BoundaryPassesBothGates ==
    /\ \A c \in Conns :
          loc[c].res = "cooldown" =>
              loc[c].current_time - last_ibm_trigger_time < IBM_COOLDOWN
    /\ \A j \in DOMAIN snap_log :
          ~snap_log[j].started =>
              \E i \in 1..(j - 1) :
                  /\ snap_log[i].started
                  /\ snap_log[j].t - snap_log[i].t < SNAPSHOT_COOLDOWN
    /\ \A i, j \in DOMAIN ibm_fired :
          i < j => ibm_fired[j].t - ibm_fired[i].t >= IBM_COOLDOWN
    /\ \A i, j \in DOMAIN snap_log :
          (i < j /\ snap_log[i].started /\ snap_log[j].started)
              => snap_log[j].t - snap_log[i].t >= SNAPSHOT_COOLDOWN

====
